---- MODULE Spec2Model ----
\* Model of backend/scripts/debug_jan26.py: the weekend-shift extractor
\* parse_ics and the module-level driver that sorts and prints its records.
\*
\* Text is modelled as a sequence of code points (so that Python's
\* lexicographic string comparison, substring test, strip and formatting are
\* computed, not assumed).  An optional value (a regex match that may be None,
\* a call that may raise) is a sequence of length 0 or 1.
EXTENDS Integers, Sequences, FiniteSets, TLC

\* ---------------------------------------------------------------------------
\* Bounds of the explored input space
\* ---------------------------------------------------------------------------
\* largest number of event blocks in the first calendar file
MaxBlocks == 2
\* largest number of event blocks in the second calendar file
MaxBlocksPM == 1
\* days 1..MaxDay of a month occur in the date fields explored exhaustively
MaxDay == 6

\* ---------------------------------------------------------------------------
\* Text helpers
\* ---------------------------------------------------------------------------
NoMatch == <<>>
Match(g) == <<g>>

\* the code point of the decimal digit n
DigitChar(n) == 48 + n

\* n written with exactly two decimal digits (%m, %d)
Pad2(n) == <<DigitChar((n \div 10) % 10), DigitChar(n % 10)>>

\* n written with exactly four decimal digits (%Y)
Pad4(n) == <<DigitChar((n \div 1000) % 10), DigitChar((n \div 100) % 10),
             DigitChar((n \div 10) % 10), DigitChar(n % 10)>>

\* Python's `needle in hay` for strings
Contains(hay, needle) ==
    \E k \in 0..(Len(hay) - Len(needle)) :
        \A j \in 1..Len(needle) : hay[k + j] = needle[j]

\* the characters str.strip() removes: tab, LF, VT, FF, CR, FS..US, space
Whitespace == {9, 10, 11, 12, 13, 28, 29, 30, 31, 32}

\* Python's str.strip()
Strip(s) ==
    LET keep == {k \in 1..Len(s) : s[k] \notin Whitespace}
    IN  IF keep = {} THEN <<>>
        ELSE LET lo == CHOOSE k \in keep : \A j \in keep : k <= j
                 hi == CHOOSE k \in keep : \A j \in keep : j <= k
             IN  SubSeq(s, lo, hi)

\* Python's s < t for strings: lexicographic on code points, a proper prefix
\* is smaller
StrLess(s, t) ==
    \E k \in 1..(Len(t)) :
        /\ k <= Len(s) + 1
        /\ \A j \in 1..(k - 1) : s[j] = t[j]
        /\ \/ k = Len(s) + 1
           \/ k <= Len(s) /\ s[k] < t[k]

\* the literals of the script
AM == <<65, 77>>
PM == <<80, 77>>
Sat == <<83, 97, 116>>
Sun == <<83, 117, 110>>
OOO == <<79, 79, 79>>
Plus == <<43>>

\* ---------------------------------------------------------------------------
\* datetime
\* ---------------------------------------------------------------------------
IsLeap(y) == y % 4 = 0 /\ (y % 100 # 0 \/ y % 400 = 0)

DaysInMonth(y, m) ==
    IF m = 2 THEN (IF IsLeap(y) THEN 29 ELSE 28)
    ELSE IF m \in {4, 6, 9, 11} THEN 30 ELSE 31

RECURSIVE DaysBeforeMonth(_, _)
DaysBeforeMonth(y, m) ==
    IF m <= 1 THEN 0 ELSE DaysBeforeMonth(y, m - 1) + DaysInMonth(y, m - 1)

\* datetime.toordinal(): 0001-01-01 is day 1
ToOrdinal(d) ==
    LET p == d.year - 1
    IN  p * 365 + (p \div 4) - (p \div 100) + (p \div 400)
        + DaysBeforeMonth(d.year, d.month) + d.day

\* datetime.weekday(): Monday is 0, Sunday is 6
Weekday(d) == (ToOrdinal(d) + 6) % 7

\* datetime.strptime(s, '%Y%m%d') for an 8-digit s: <<date>>, or <<>> when it
\* raises ValueError
Strptime(s) ==
    LET y == (s[1] - 48) * 1000 + (s[2] - 48) * 100 + (s[3] - 48) * 10 + (s[4] - 48)
        m == (s[5] - 48) * 10 + (s[6] - 48)
        dd == (s[7] - 48) * 10 + (s[8] - 48)
    IN  IF y >= 1 /\ m \in 1..12 /\ dd >= 1 /\ dd <= DaysInMonth(y, m)
        THEN <<[year |-> y, month |-> m, day |-> dd]>>
        ELSE <<>>

\* datetime.strftime('%Y-%m-%d')
Strftime(d) == Pad4(d.year) \o <<45>> \o Pad2(d.month) \o <<45>> \o Pad2(d.day)

\* d - timedelta(days=1): <<date>>, or <<>> when it raises OverflowError
\* (there is no day before datetime.min)
MinusOneDay(d) ==
    IF d.day > 1 THEN <<[d EXCEPT !.day = d.day - 1]>>
    ELSE IF d.month > 1
         THEN <<[year |-> d.year, month |-> d.month - 1,
                 day |-> DaysInMonth(d.year, d.month - 1)]>>
    ELSE IF d.year > 1
         THEN <<[year |-> d.year - 1, month |-> 12, day |-> 31]>>
    ELSE <<>>

\* d + timedelta(days=1)
PlusOneDay(d) ==
    IF d.day < DaysInMonth(d.year, d.month) THEN [d EXCEPT !.day = d.day + 1]
    ELSE IF d.month < 12 THEN [year |-> d.year, month |-> d.month + 1, day |-> 1]
    ELSE [year |-> d.year + 1, month |-> 1, day |-> 1]

\* a <= b for datetimes
DateLeq(a, b) ==
    \/ a.year < b.year
    \/ a.year = b.year /\ a.month < b.month
    \/ a.year = b.year /\ a.month = b.month /\ a.day <= b.day

\* ---------------------------------------------------------------------------
\* parse_ics: one event block
\* ---------------------------------------------------------------------------
\* An event block is the text between two BEGIN:VEVENT markers.  It is
\* represented by what the three re.search calls find in it: the captured
\* group of the first match, or NoMatch.
\*   summary_m : the rest of the first line holding SUMMARY:
\*   start_m   : the 8 digits after the first DTSTART[;VALUE=DATE]:
\*   end_m     : the 8 digits after the first DTEND[;VALUE=DATE]:

TargetYear == 2026
LastMonth == 2

\* `continue`: the block contributes nothing, the loop goes on
Skip == [raised |-> FALSE, recs |-> <<>>]

\* an exception leaves parse_ics
Raise == [raised |-> TRUE, recs |-> <<>>]

\* variant: a block is skipped only when both fields are missing
MissingBoth(evt) == evt.summary_m = NoMatch /\ evt.start_m = NoMatch

\* if not summary_m or not start_m
MissingField(evt) == evt.summary_m = NoMatch \/ evt.start_m = NoMatch

\* variant: the '+' marker is not tested
ExcludedOnlyOOO(summary) == Contains(summary, OOO)

\* if 'OOO' in summary or '+' in summary
Excluded(summary) == Contains(summary, OOO) \/ Contains(summary, Plus)

\* variant: the month test is off by one
OutsideWindowLate(start_date) ==
    start_date.year # TargetYear \/ start_date.month > LastMonth + 1

\* if start_date.year != 2026 ... if start_date.month > 2
OutsideWindow(start_date) ==
    start_date.year # TargetYear \/ start_date.month > LastMonth

\* variant: the end date is taken as inclusive
EndDateInclusive(start_date, end_m) ==
    IF end_m # NoMatch THEN Strptime(end_m[1]) ELSE <<start_date>>

\* the if/else that sets end_date: <<date>>, or <<>> when strptime or the
\* subtraction raises (neither is inside a try)
EndDate(start_date, end_m) ==
    IF end_m # NoMatch
    THEN LET e == Strptime(end_m[1])
         IN  IF e = <<>> THEN <<>> ELSE MinusOneDay(e[1])
    ELSE <<start_date>>

\* 'Sun' if dow == 6 else 'Sat'
DayName(dow) == IF dow = 6 THEN Sun ELSE Sat

\* variant: the weekend test uses isoweekday() numbers
IsWeekendIso(dow) == dow = 6 \/ dow = 7

\* if dow == 5 or dow == 6
IsWeekend(dow) == dow = 5 \/ dow = 6

\* the while loop: the records appended for current..end_date
RECURSIVE Expand(_, _, _, _)
Expand(current, end_date, summary, shift_name) ==
    IF DateLeq(current, end_date)
    THEN LET dow == Weekday(current)
             here == IF IsWeekend(dow)
                     THEN <<[date |-> Strftime(current), day |-> DayName(dow),
                             name |-> summary, shift |-> shift_name]>>
                     ELSE <<>>
         IN  here \o Expand(PlusOneDay(current), end_date, summary, shift_name)
    ELSE <<>>

\* the body of `for evt in events[1:]`
ProcessEvent(evt, shift_name) ==
    IF MissingField(evt) THEN Skip
    ELSE IF evt.summary_m = NoMatch \/ evt.start_m = NoMatch
    THEN Raise    \* .group(1) of None
    ELSE LET summary == Strip(evt.summary_m[1])
         IN  IF Excluded(summary) THEN Skip
             ELSE LET s == Strptime(evt.start_m[1])
                  IN  IF s = <<>> THEN Skip
                      ELSE IF OutsideWindow(s[1]) THEN Skip
                      ELSE LET e == EndDate(s[1], evt.end_m)
                           IN  IF e = <<>> THEN Raise
                               ELSE [raised |-> FALSE,
                                     recs |-> Expand(s[1], e[1], summary, shift_name)]

\* ---------------------------------------------------------------------------
\* The driver's helpers
\* ---------------------------------------------------------------------------
\* the two calls of parse_ics
Calls == <<[filename |-> "AMR AM Analysts.ics", shift_name |-> AM],
           [filename |-> "AMR PM Analysts.ics", shift_name |-> PM]>>

\* the path parse_ics ends up opening: <<"primary">>, <<"fallback">> or <<>>
ResolvePath(file) ==
    IF file.primary.kind # "absent" THEN <<"primary">>
    ELSE IF file.fallback.kind # "absent" THEN <<"fallback">>
    ELSE <<>>

\* variant: all_ops = r
ExtendReplace(ops, r) == r

\* all_ops.extend(r)
Extend(ops, r) == ops \o r

\* variant: the key is (shift, date)
KeyLessShiftFirst(x, y) ==
    \/ StrLess(x.shift, y.shift)
    \/ x.shift = y.shift /\ StrLess(x.date, y.date)

\* (x['date'], x['shift']) < (y['date'], y['shift'])
KeyLess(x, y) ==
    \/ StrLess(x.date, y.date)
    \/ x.date = y.date /\ StrLess(x.shift, y.shift)

\* insert r after every element whose key is not greater (stable)
RECURSIVE Insert(_, _)
Insert(sorted, r) ==
    IF sorted = <<>> THEN <<r>>
    ELSE IF KeyLess(r, sorted[Len(sorted)])
         THEN Insert(SubSeq(sorted, 1, Len(sorted) - 1), r) \o <<sorted[Len(sorted)]>>
         ELSE Append(sorted, r)

\* list.sort(key=...): a stable sort
RECURSIVE SortOps(_)
SortOps(ops) ==
    IF ops = <<>> THEN <<>>
    ELSE Insert(SortOps(SubSeq(ops, 1, Len(ops) - 1)), ops[Len(ops)])

\* f"{r['date']} | {r['day']} | {r['shift']}    | {r['name']}"
Row(r) == r.date \o <<32, 124, 32>> \o r.day \o <<32, 124, 32>> \o r.shift
          \o <<32, 32, 32, 32, 124, 32>> \o r.name

HeaderLine == [kind |-> "header", lit |-> "\nDate       | Day | Shift | Name"]
SeparatorLine == [kind |-> "separator", lit |-> "-----------|-----|-------|------"]
RowLine(r) == [kind |-> "row", text |-> Row(r)]

\* log(msg)
LogLine(m, n) == [kind |-> "log", msg |-> m, n |-> n]

\* ---------------------------------------------------------------------------
\* Inputs: the two calendar files
\* ---------------------------------------------------------------------------
\* the 8 digits of a date field
DateStr(y, m, d) == Pad4(y) \o Pad2(m) \o Pad2(d)

Event(summary_m, start_m, end_m) ==
    [summary_m |-> summary_m, start_m |-> start_m, end_m |-> end_m]

\* "Ann\r" (a CRLF file leaves the CR in the captured group), "Bob",
\* "x OOO", "A+B", "OO"
AnnCR == <<65, 110, 110, 13>>
Ann == <<65, 110, 110>>
Bob == <<66, 111, 98>>
XOOO == <<120, 32, 79, 79, 79>>
APlusB == <<65, 43, 66>>
OO == <<79, 79>>

\* the events explored in files of several blocks
CoreEvents ==
    { Event(Match(Bob), Match(DateStr(2026, 1, 3)), NoMatch),
      Event(Match(AnnCR), Match(DateStr(2026, 1, 2)), Match(DateStr(2026, 1, 6))),
      Event(Match(Ann), Match(DateStr(2026, 1, 3)), Match(DateStr(2026, 2, 30))),
      Event(Match(Bob), Match(DateStr(2026, 2, 30)), NoMatch),
      Event(NoMatch, Match(DateStr(2026, 1, 3)), NoMatch) }

\* the events explored exhaustively in files of one block
StartYears == {2025, 2026, 2027}
EndYears == {1, 2025, 2026}
Months == {1, 2, 3}
Days == (1..MaxDay) \cup {27, 30}
SummaryMs == {NoMatch, Match(AnnCR), Match(XOOO), Match(APlusB), Match(OO)}
DateMs(years) ==
    {NoMatch} \cup {Match(DateStr(y, m, d)) : y \in years, m \in Months, d \in Days}
AllEvents == [summary_m : SummaryMs, start_m : DateMs(StartYears), end_m : DateMs(EndYears)]

\* the text before the first BEGIN:VEVENT; here it happens to hold lines that
\* the three patterns match
Preamble == Event(Match(Bob), Match(DateStr(2026, 1, 4)), NoMatch)

Absent == [kind |-> "absent", segs |-> <<>>]
Unreadable == [kind |-> "unreadable", segs |-> <<>>]
\* a readable file, given as content.split('BEGIN:VEVENT') sees it
Text(blocks) == [kind |-> "text", segs |-> <<Preamble>> \o blocks]

BoundedSeq(S, n) == UNION {[1..k -> S] : k \in 0..n}

OneBob == <<Event(Match(Bob), Match(DateStr(2026, 1, 3)), NoMatch)>>

\* a file of up to n core events, at the primary or at the fallback path, or
\* missing, or not readable
SmallFiles(n) ==
    {[primary |-> Text(b), fallback |-> Absent] : b \in BoundedSeq(CoreEvents, n)}
    \cup {[primary |-> Absent, fallback |-> x] : x \in {Absent, Unreadable, Text(OneBob)}}
    \cup {[primary |-> x, fallback |-> Text(OneBob)] : x \in {Unreadable, Text(<<>>)}}

\* a file of one event
WideFiles == {[primary |-> Text(<<e>>), fallback |-> Absent] : e \in AllEvents}

Nowhere == [primary |-> Absent, fallback |-> Absent]

\* ---------------------------------------------------------------------------
\* The run of the script
\* ---------------------------------------------------------------------------
VARIABLES fs, pc, call, events, idx, results, ret, all_ops, stdout

vars == <<fs, pc, call, events, idx, results, ret, all_ops, stdout>>

Init ==
    /\ \/ fs \in {<<a, p>> : a \in SmallFiles(MaxBlocks), p \in SmallFiles(MaxBlocksPM)}
       \/ fs \in {<<a, Nowhere>> : a \in WideFiles}
    /\ pc = "start"
    /\ call = 1
    /\ events = <<>>
    /\ idx = 0
    /\ results = <<>>
    /\ ret = <<NoMatch, NoMatch>>
    /\ all_ops = <<>>
    /\ stdout = <<>>

\* print("Starting analysis..."); all_ops = []
Start ==
    /\ pc = "start"
    /\ stdout' = Append(stdout, LogLine("Starting analysis...", 0))
    /\ all_ops' = <<>>
    /\ pc' = "call"
    /\ UNCHANGED <<fs, call, events, idx, results, ret>>

\* the lines logged while looking for the file
NotFoundLogs(file) ==
    (IF file.primary.kind = "absent" THEN <<LogLine("File not found", 0)>> ELSE <<>>)
    \o (IF ResolvePath(file) = <<>> THEN <<LogLine("Still not found", 0)>> ELSE <<>>)

\* parse_ics returns r: the driver extends all_ops and goes on to the next
\* call, or to the sort
Returns(r, logs) ==
    /\ ret' = [ret EXCEPT ![call] = <<r>>]
    /\ all_ops' = Extend(all_ops, r)
    /\ stdout' = stdout \o logs
    /\ IF call < Len(Calls)
       THEN call' = call + 1 /\ pc' = "call"
       ELSE call' = call /\ pc' = "sort"
    /\ UNCHANGED <<fs, events, idx, results>>

\* parse_ics: the file is at neither path
NotFound ==
    /\ pc = "call"
    /\ ResolvePath(fs[call]) = <<>>
    /\ Returns(<<>>, NotFoundLogs(fs[call]))

\* parse_ics: open/read raises, which the except clause turns into []
ReadFails ==
    /\ pc = "call"
    /\ ResolvePath(fs[call]) # <<>>
    /\ fs[call][ResolvePath(fs[call])[1]].kind = "unreadable"
    /\ Returns(<<>>, NotFoundLogs(fs[call])
                     \o <<LogLine("Reading", 0), LogLine("Error reading file", 0)>>)

\* parse_ics: the file is read and split into blocks
ReadFile ==
    /\ pc = "call"
    /\ ResolvePath(fs[call]) # <<>>
    /\ LET node == fs[call][ResolvePath(fs[call])[1]]
       IN  /\ node.kind = "text"
           /\ events' = node.segs
           /\ stdout' = stdout \o NotFoundLogs(fs[call])
                        \o <<LogLine("Reading", 0),
                             LogLine("Found event blocks", Len(node.segs))>>
    /\ idx' = 2
    /\ results' = <<>>
    /\ pc' = "loop"
    /\ UNCHANGED <<fs, call, ret, all_ops>>

\* one iteration of `for evt in events[1:]` that ends normally
Block ==
    /\ pc = "loop"
    /\ idx <= Len(events)
    /\ LET out == ProcessEvent(events[idx], Calls[call].shift_name)
       IN  /\ ~out.raised
           /\ results' = results \o out.recs
    /\ idx' = idx + 1
    /\ UNCHANGED <<fs, pc, call, events, ret, all_ops, stdout>>

\* one iteration that raises: nothing catches the exception, the script ends
\* with a traceback before anything of the table is printed
BlockRaises ==
    /\ pc = "loop"
    /\ idx <= Len(events)
    /\ ProcessEvent(events[idx], Calls[call].shift_name).raised
    /\ pc' = "crashed"
    /\ UNCHANGED <<fs, call, events, idx, results, ret, all_ops, stdout>>

\* the loop is over: log and return results
LoopEnd ==
    /\ pc = "loop"
    /\ idx > Len(events)
    /\ Returns(results, <<LogLine("Extracted weekend shifts", Len(results))>>)

\* all_ops.sort(key=lambda x: (x['date'], x['shift']))
Sort ==
    /\ pc = "sort"
    /\ all_ops' = SortOps(all_ops)
    /\ pc' = "print"
    /\ UNCHANGED <<fs, call, events, idx, results, ret, stdout>>

\* the header, the separator and one row per record
PrintTable ==
    /\ pc = "print"
    /\ stdout' = stdout \o <<HeaderLine, SeparatorLine>>
                 \o [k \in 1..Len(all_ops) |-> RowLine(all_ops[k])]
    /\ pc' = "done"
    /\ UNCHANGED <<fs, call, events, idx, results, ret, all_ops>>

Next ==
    \/ Start
    \/ NotFound
    \/ ReadFails
    \/ ReadFile
    \/ Block
    \/ BlockRaises
    \/ LoopEnd
    \/ Sort
    \/ PrintTable

Spec == Init /\ [][Next]_vars

\* ---------------------------------------------------------------------------
\* Vocabulary of the properties
\* ---------------------------------------------------------------------------
\* the loop is about to process events[idx]
Processing == pc = "loop" /\ idx <= Len(events)

\* the block the loop processed last
LastEvt == events[idx - 1]

\* the loop has processed at least one block of the current file
Processed == pc = "loop" /\ idx >= 3

\* the block is skipped: nothing is appended, nothing is raised, the loop
\* goes on with the next block
BlockSkipped == pc' = "loop" /\ idx' = idx + 1 /\ results' = results /\ events' = events

\* the year, month and day digits of an 8-digit field, read as numbers
YearDigits(s) == (s[1] - 48) * 1000 + (s[2] - 48) * 100 + (s[3] - 48) * 10 + (s[4] - 48)
MonthDigits(s) == (s[5] - 48) * 10 + (s[6] - 48)
DayDigits(s) == (s[7] - 48) * 10 + (s[8] - 48)

\* the 8 digits name a day of the calendar
IsCalendarDate(s) ==
    /\ YearDigits(s) >= 1
    /\ MonthDigits(s) \in 1..12
    /\ DayDigits(s) >= 1
    /\ DayDigits(s) <= (CASE MonthDigits(s) \in {1, 3, 5, 7, 8, 10, 12} -> 31
                          [] MonthDigits(s) \in {4, 6, 9, 11} -> 30
                          [] OTHER -> IF IsLeap(YearDigits(s)) THEN 29 ELSE 28)

DateOf(s) == [year |-> YearDigits(s), month |-> MonthDigits(s), day |-> DayDigits(s)]

\* an accepted event: both fields present, no exclusion marker, a start date
\* that is a calendar date of January or February 2026
Accepted(evt) ==
    /\ evt.summary_m # NoMatch
    /\ evt.start_m # NoMatch
    /\ ~Contains(evt.summary_m[1], OOO)
    /\ ~Contains(evt.summary_m[1], Plus)
    /\ IsCalendarDate(evt.start_m[1])
    /\ YearDigits(evt.start_m[1]) = 2026
    /\ MonthDigits(evt.start_m[1]) \in {1, 2}

FirstDay == [year |-> 1, month |-> 1, day |-> 1]

\* the end date is absent, or a calendar date that has a day before it
EndUsable(evt) ==
    \/ evt.end_m = NoMatch
    \/ IsCalendarDate(evt.end_m[1]) /\ DateOf(evt.end_m[1]) # FirstDay

\* the days of the years a range of the explored events can reach
Calendar ==
    {d \in [year : 2026..2027, month : 1..12, day : 1..31] :
        IsCalendarDate(DateStr(d.year, d.month, d.day))}

\* the weekday by Zeller's congruence: 0 Saturday, 1 Sunday, 2 Monday ...
Zeller(d) ==
    LET m == IF d.month < 3 THEN d.month + 12 ELSE d.month
        y == IF d.month < 3 THEN d.year - 1 ELSE d.year
        K == y % 100
        J == y \div 100
    IN  (d.day + ((13 * (m + 1)) \div 5) + K + (K \div 4) + (J \div 4) + 5 * J) % 7

\* strictly earlier
DateBefore(a, b) == DateLeq(a, b) /\ a # b

\* the Saturdays and Sundays from the start day to the effective last day
\* (the day before the end date, or the start day when there is no end date)
WeekendDays(evt) ==
    LET start == DateOf(evt.start_m[1])
    IN  {d \in Calendar :
            /\ ~DateBefore(d, start)
            /\ IF evt.end_m = NoMatch THEN d = start
               ELSE DateBefore(d, DateOf(evt.end_m[1]))
            /\ Zeller(d) \in {0, 1}}

Iso(d) == Pad4(d.year) \o <<45>> \o Pad2(d.month) \o <<45>> \o Pad2(d.day)

\* new holds exactly one record for each weekend day of the event, rightly
\* labelled, and nothing else
ExactlyTheWeekendDays(new, evt, shift_name) ==
    /\ \A d \in WeekendDays(evt) :
          /\ Cardinality({k \in 1..Len(new) : new[k].date = Iso(d)}) = 1
          /\ \A k \in 1..Len(new) :
                new[k].date = Iso(d) =>
                    /\ new[k].day = (IF Zeller(d) = 0 THEN Sat ELSE Sun)
                    /\ new[k].shift = shift_name
                    /\ new[k].name = Strip(evt.summary_m[1])
    /\ \A k \in 1..Len(new) : \E d \in WeekendDays(evt) : new[k].date = Iso(d)

IsMissing(c) == fs[c].primary.kind = "absent" /\ fs[c].fallback.kind = "absent"

Returned(c) == ret[c] # NoMatch

\* the lines of the table, in the order printed
TableLines == SelectSeq(stdout, LAMBDA l : l.kind \in {"header", "separator", "row"})
RowTexts == LET rows == SelectSeq(stdout, LAMBDA l : l.kind = "row")
            IN  [k \in 1..Len(rows) |-> rows[k].text]

\* how many times x occurs in seq
Count(seq, x) == Cardinality({k \in 1..Len(seq) : seq[k] = x})

\* seq and other hold the same elements the same number of times
SameElements(seq, other) ==
    /\ Len(seq) = Len(other)
    /\ \A k \in 1..Len(seq) : Count(seq, seq[k]) = Count(other, seq[k])

RowsOf(recs) == [k \in 1..Len(recs) |-> Row(recs[k])]

\* ---------------------------------------------------------------------------
\* Properties
\* ---------------------------------------------------------------------------

\* C1: every record that parse_ics returns has a date in January or February
\* of 2026.
C1_ReturnedDatesInWindow ==
    \A c \in 1..2 :
        Returned(c) =>
            \A k \in 1..Len(ret[c][1]) :
                /\ SubSeq(ret[c][1][k].date, 1, 4) = Pad4(2026)
                /\ SubSeq(ret[c][1][k].date, 6, 7) \in {Pad2(1), Pad2(2)}

\* an 8-digit start or end field that is no calendar date
HasBadDate(evt) ==
    \/ evt.start_m # NoMatch /\ ~IsCalendarDate(evt.start_m[1])
    \/ evt.end_m # NoMatch /\ ~IsCalendarDate(evt.end_m[1])

\* C2: a block with an 8-digit date field that is no calendar date is
\* skipped, and only it: it adds no record and the loop goes on with the
\* next block.
C2_BadDateSkipsOnlyTheBlock ==
    [][Processing /\ HasBadDate(events[idx]) => BlockSkipped]_vars

\* C3: no exception leaves parse_ics, whatever the two files hold.
C3_NoExceptionPropagates == pc # "crashed"

\* C4: a file that is at neither path makes its call return the empty list
\* without failing; the driver goes on to the other call and keeps exactly the
\* other call's records, and with both files missing the table is the header
\* and the separator alone.
C4_MissingFileIsEmptySource ==
    \A c \in 1..2 :
        IsMissing(c) =>
            /\ Returned(c) => ret[c][1] = <<>>
            /\ ~(pc = "crashed" /\ call = c)
            /\ (c = 1 /\ Returned(1)) => call = 2
            /\ pc = "sort" => all_ops = ret[3 - c][1]
            /\ pc \in {"print", "done"} => SameElements(all_ops, ret[3 - c][1])
            /\ pc = "done" => SameElements(RowTexts, RowsOf(ret[3 - c][1]))
            /\ (pc = "done" /\ IsMissing(3 - c)) => TableLines = <<HeaderLine, SeparatorLine>>

C4_Witness ==
    /\ pc = "done"
    /\ IsMissing(2)
    /\ ~IsMissing(1)
    /\ Len(ret[1][1]) >= 2
    /\ Len(RowTexts) = Len(ret[1][1])

\* C5: for an accepted event the records appended are exactly one for each
\* Saturday or Sunday from the start day to the effective last day (the day
\* before the end date, or the start day without an end date), each labelled
\* with its weekday.
C5_WeekendExpansion ==
    [][(Processing /\ Accepted(events[idx]) /\ EndUsable(events[idx])) =>
          /\ pc' = "loop"
          /\ idx' = idx + 1
          /\ Len(results') >= Len(results)
          /\ SubSeq(results', 1, Len(results)) = results
          /\ ExactlyTheWeekendDays(SubSeq(results', Len(results) + 1, Len(results')),
                                   events[idx], Calls[call].shift_name)]_vars

\* start 20260102 with end 20260106 has been processed and gave Jan 3 'Sat'
\* and Jan 4 'Sun'
C5_Witness ==
    /\ Processed
    /\ idx = 3
    /\ LastEvt.start_m = Match(DateStr(2026, 1, 2))
    /\ LastEvt.end_m = Match(DateStr(2026, 1, 6))
    /\ Len(results) = 2
    /\ results[1].date = Iso([year |-> 2026, month |-> 1, day |-> 3])
    /\ results[1].day = Sat
    /\ results[2].date = Iso([year |-> 2026, month |-> 1, day |-> 4])
    /\ results[2].day = Sun

\* C6: an event whose start date is in another year than 2026, or in month 3
\* or later, adds no record, whatever its end date and summary.
C6_StartOutsideWindowAddsNothing ==
    [][(/\ Processing
        /\ events[idx].start_m # NoMatch
        /\ \/ YearDigits(events[idx].start_m[1]) # 2026
           \/ MonthDigits(events[idx].start_m[1]) >= 3) => BlockSkipped]_vars

\* a Sunday in March 2026 with a clean summary has been processed
C6_Witness ==
    /\ Processed
    /\ LastEvt.summary_m = Match(AnnCR)
    /\ LastEvt.start_m = Match(DateStr(2026, 3, 1))
    /\ LastEvt.end_m = Match(DateStr(2026, 3, 3))
    /\ results = <<>>

\* C7: an event whose summary contains "OOO" or "+" adds no record, even with
\* valid dates that cover a weekend of the window.
C7_ExcludedSummaryAddsNothing ==
    [][(/\ Processing
        /\ events[idx].summary_m # NoMatch
        /\ \/ Contains(events[idx].summary_m[1], OOO)
           \/ Contains(events[idx].summary_m[1], Plus)) => BlockSkipped]_vars

\* "A+B" on Saturday 2026-01-03 has been processed
C7_Witness ==
    /\ Processed
    /\ LastEvt.summary_m = Match(APlusB)
    /\ LastEvt.start_m = Match(DateStr(2026, 1, 3))
    /\ LastEvt.end_m = NoMatch
    /\ results = <<>>

\* C8: a block without a summary field or without a start-date field adds no
\* record and raises nothing, and the loop goes on with the next block.
C8_MissingFieldSkipsBlock ==
    [][(/\ Processing
        /\ \/ events[idx].summary_m = NoMatch
           \/ events[idx].start_m = NoMatch) => BlockSkipped]_vars

\* a block without summary was skipped and the block after it gave its record
C8_Witness ==
    /\ pc = "loop"
    /\ idx = 4
    /\ events[2].summary_m = NoMatch
    /\ events[2].start_m # NoMatch
    /\ Len(results) = 1
    /\ results[1].name = Bob

\* C9: the rows printed are the records of the two extractions, none lost and
\* none duplicated, in ascending order of (date, shift); of two records of one
\* date the "AM" one comes before the "PM" one.
C9_RowsAreTheSortedRecords ==
    pc = "done" =>
        /\ Returned(1) /\ Returned(2)
        /\ SameElements(RowTexts, RowsOf(ret[1][1] \o ret[2][1]))
        /\ RowTexts = RowsOf(all_ops)
        /\ \A i, j \in 1..Len(all_ops) :
              i < j =>
                 \/ StrLess(all_ops[i].date, all_ops[j].date)
                 \/ /\ all_ops[i].date = all_ops[j].date
                    /\ \/ StrLess(all_ops[i].shift, all_ops[j].shift)
                       \/ all_ops[i].shift = all_ops[j].shift
        /\ \A i, j \in 1..Len(all_ops) :
              (/\ all_ops[i].date = all_ops[j].date
               /\ all_ops[i].shift = AM
               /\ all_ops[j].shift = PM) => i < j

\* an AM and a PM record of one date were printed, followed by a later AM
\* record
C9_Witness ==
    /\ pc = "done"
    /\ Len(all_ops) >= 3
    /\ all_ops[1].date = all_ops[2].date
    /\ all_ops[1].shift = AM
    /\ all_ops[2].shift = PM
    /\ all_ops[3].shift = AM
    /\ Len(RowTexts) = Len(all_ops)

\* C10: an accepted event whose end date is on or before its start date adds
\* no record, and the loop goes on with the next block (unless the end date is
\* the first day of the calendar, which has no day before it).
C10_EndNotAfterStartAddsNothing ==
    [][(/\ Processing
        /\ Accepted(events[idx])
        /\ events[idx].end_m # NoMatch
        /\ IsCalendarDate(events[idx].end_m[1])
        /\ DateLeq(DateOf(events[idx].end_m[1]), DateOf(events[idx].start_m[1]))) =>
          /\ results' = results
          /\ DateOf(events[idx].end_m[1]) # FirstDay => BlockSkipped]_vars

\* start and end both on Saturday 2026-01-03 has been processed
C10_Witness ==
    /\ Processed
    /\ LastEvt.summary_m = Match(AnnCR)
    /\ LastEvt.start_m = Match(DateStr(2026, 1, 3))
    /\ LastEvt.end_m = Match(DateStr(2026, 1, 3))
    /\ results = <<>>

====
